---- MODULE Spec2Model ----
(***************************************************************************)
(* A model of main.py: the Hat container (constructor and draw), the       *)
(* Counter helper (spread and count) and the experiment routine.           *)
(*                                                                         *)
(* A dict is a function whose DOMAIN is its key set.  Keyword arguments    *)
(* are a sequence of <<key, value>> pairs with distinct keys, because      *)
(* Counter.spread depends on their iteration order.  A list is a sequence. *)
(* random.randint is a nondeterministic choice of the index.               *)
(***************************************************************************)
EXTENDS Integers, Sequences, FiniteSets, TLC

\* ---------------------------------------------------------------- bounds
Labels == {"red", "blue"}

\* at most this many keyword arguments to Hat(...) / Counter.spread(...)
MaxKeys == 2

\* the largest count passed for one label
MaxCount == 2

\* the most negative count passed for one label is -NegCount
NegCount == 1

\* the largest num_experiments passed to experiment
MaxTrials == 2

\* the largest minimum required count in expected_balls
MaxExpected == 1

Counts == (0 - NegCount) .. MaxCount

\* draw sizes tried: negative, zero, below, equal to and above any population
DrawSizes == (0 - 1) .. (MaxKeys * MaxCount + 1)

TrialCounts == (0 - 1) .. MaxTrials

\* ---------------------------------------------------------------- dicts
EmptyDict == [k \in {} |-> 0]

\* dict.get(k, default)
DictGet(d, k, default) == IF k \in DOMAIN d THEN d[k] ELSE default

\* d[k] = v
DictSet(d, k, v) == [x \in (DOMAIN d) \cup {k} |-> IF x = k THEN v ELSE d[x]]

\* dict.fromkeys(d, v)
Fromkeys_Keep(d, v) == d

Fromkeys(d, v) == [k \in DOMAIN d |-> v]

\* the keyword-argument lists of at most MaxKeys distinct keys
KwargsSet ==
    UNION { { kw \in [1..n -> Labels \X Counts] :
                \A i, j \in 1..n : i # j => kw[i][1] # kw[j][1] } : n \in 0..MaxKeys }

\* kwargs.copy(): the dict of the keyword arguments
KwargsDict(kw) ==
    [k \in { kw[i][1] : i \in DOMAIN kw } |->
        (CHOOSE p \in { kw[i] : i \in DOMAIN kw } : p[1] = k)[2]]

\* the targets passed as expected_balls
ExpectedSet ==
    UNION { [ks -> 0..MaxExpected] : ks \in SUBSET Labels }

\* ---------------------------------------------------------------- Counter
\* [key for _ in range(count)]: nothing when count <= 0
Repeat(key, c) == [i \in 1..c |-> key]

RECURSIVE Counter_spread(_)
Counter_spread(kw) ==
    IF kw = << >> THEN << >>
    ELSE Repeat(Head(kw)[1], Head(kw)[2]) \o Counter_spread(Tail(kw))

\* count[item] = count.get(item, 0) + 1
Tally_Overwrite(cnt, item) == DictSet(cnt, item, 1)

Tally(cnt, item) == DictSet(cnt, item, DictGet(cnt, item, 0) + 1)

RECURSIVE CountFrom(_, _)
CountFrom(cnt, spread) ==
    IF spread = << >> THEN cnt
    ELSE CountFrom(Tally(cnt, Head(spread)), Tail(spread))

Counter_count(spread) == CountFrom(EmptyDict, spread)

\* ---------------------------------------------------------------- Hat
Hat_init(kw) == [count |-> KwargsDict(kw), contents |-> Counter_spread(kw)]

EmptyHat == [count |-> EmptyDict, contents |-> << >>]

\* list.pop(i), i counted from 1: later positions shift down
Pop_Keep(s, i) == s

Pop(s, i) == SubSeq(s, 1, i - 1) \o SubSeq(s, i + 1, Len(s))

\* self.count[ball] -= 1
Decrement_Skip(cnt, ball) == cnt

Decrement(cnt, ball) == [cnt EXCEPT ![ball] = @ - 1]

\* the else branch of draw: k more iterations of the loop.  pre records, for
\* each removed ball, self.count[ball] as it was just before its decrement.
RECURSIVE DrawLoop(_, _, _, _)
DrawLoop(h, removed, pre, k) ==
    IF k <= 0
    THEN { [hat |-> h, removedBalls |-> removed, pre |-> pre] }
    ELSE UNION { LET ball == h.contents[i]
                 IN  DrawLoop([count    |-> Decrement(h.count, ball),
                               contents |-> Pop(h.contents, i)],
                              Append(removed, ball),
                              Append(pre, h.count[ball]),
                              k - 1)
                 : i \in 1..Len(h.contents) }

\* the outcomes of h.draw(n)
Hat_draw_NoDrain(h, n) ==
    IF n >= Len(h.contents)
    THEN { [hat |-> [count |-> Fromkeys(h.count, 0), contents |-> h.contents],
            removedBalls |-> h.contents, pre |-> << >>] }
    ELSE DrawLoop(h, << >>, << >>, n)

Hat_draw(h, n) ==
    IF n >= Len(h.contents)
    THEN { [hat |-> [count |-> Fromkeys(h.count, 0), contents |-> << >>],
            removedBalls |-> h.contents, pre |-> << >>] }
    ELSE DrawLoop(h, << >>, << >>, n)

\* ---------------------------------------------------------------- experiment
\* copy.deepcopy(hat): a new object with the same state; the reference to it
Deepcopy_Alias(hp, r) == [heap |-> hp, ref |-> r]

Deepcopy(hp, r) == [heap |-> [hp EXCEPT !["clone"] = hp[r]], ref |-> "clone"]

\* all(draw.get(ball, 0) >= count for ball, count in expected_balls.items())
Contains_Strict(draw, expected) ==
    \A ball \in DOMAIN expected : DictGet(draw, ball, 0) > expected[ball]

Contains(draw, expected) ==
    \A ball \in DOMAIN expected : DictGet(draw, ball, 0) >= expected[ball]

\* success_counter / num_experiments: the float as a fraction, or the error
NoValue == [err |-> "none", list |-> << >>, num |-> 0, den |-> 1]

Divide(a, b) ==
    IF b = 0
    THEN [err |-> "ZeroDivisionError", list |-> << >>, num |-> 0, den |-> 0]
    ELSE [err |-> "none", list |-> << >>, num |-> a, den |-> b]

\* ---------------------------------------------------------------- state
VARIABLES
    kwargs,            \* the keyword arguments the hat was constructed from
    heap,              \* the objects: heap.hat is the caller's hat, heap.clone
                       \* the copy a trial of experiment draws from
    pc,                \* "idle", or "loop" inside experiment's for loop
    call,              \* the latest call: "init", "draw" or "experiment"
    args,              \* the arguments of the latest call
    before,            \* heap.hat when the latest call began
    ret,               \* what the latest call returned or raised
    pre,               \* per ball of the latest draw, its count before removal
    drawnTotal,        \* number of balls returned by all draws on heap.hat
    success_counter,   \* experiment's local
    trial,             \* number of iterations of experiment's loop completed
    spread_in,         \* Counter.spread's arguments in the pure-function runs
    spread_out,        \* Counter.spread(**spread_in)
    count_out          \* Counter.count(spread_out)

vars == << kwargs, heap, pc, call, args, before, ret, pre, drawnTotal,
           success_counter, trial, spread_in, spread_out, count_out >>

counterVars == << spread_in, spread_out, count_out >>

NoArgs == [n |-> 0, expected_balls |-> EmptyDict, num_experiments |-> 0]

\* hat = Hat(**kw)
Init ==
    /\ kwargs \in KwargsSet
    /\ heap = [hat |-> Hat_init(kwargs), clone |-> EmptyHat]
    /\ pc = "idle"
    /\ call = "init"
    /\ args = NoArgs
    /\ before = EmptyHat
    /\ ret = NoValue
    /\ pre = << >>
    /\ drawnTotal = 0
    /\ success_counter = 0
    /\ trial = 0
    /\ spread_in = << >>
    /\ spread_out = << >>
    /\ count_out = EmptyDict

\* hat.draw(n)
Draw(n) ==
    /\ pc = "idle"
    /\ \E out \in Hat_draw(heap.hat, n) :
        /\ heap' = [heap EXCEPT !.hat = out.hat]
        /\ ret' = [NoValue EXCEPT !.list = out.removedBalls]
        /\ pre' = out.pre
        /\ drawnTotal' = drawnTotal + Len(out.removedBalls)
    /\ call' = "draw"
    /\ args' = [NoArgs EXCEPT !.n = n]
    /\ before' = heap.hat
    /\ UNCHANGED << kwargs, pc, success_counter, trial, counterVars >>

\* experiment(hat, expected, n, trials): entry, success_counter = 0
ExperimentCall(expected, n, trials) ==
    /\ pc = "idle"
    /\ pc' = "loop"
    /\ call' = "experiment"
    /\ args' = [n |-> n, expected_balls |-> expected, num_experiments |-> trials]
    /\ before' = heap.hat
    /\ ret' = NoValue
    /\ pre' = << >>
    /\ success_counter' = 0
    /\ trial' = 0
    /\ UNCHANGED << kwargs, heap, drawnTotal, counterVars >>

\* one iteration of the for loop of experiment
ExperimentTrial ==
    /\ pc = "loop"
    /\ trial < args.num_experiments
    /\ LET cp == Deepcopy(heap, "hat")
       IN  \E out \in Hat_draw(cp.heap[cp.ref], args.n) :
             /\ heap' = [cp.heap EXCEPT ![cp.ref] = out.hat]
             /\ success_counter' =
                  IF Contains(Counter_count(out.removedBalls), args.expected_balls)
                  THEN success_counter + 1
                  ELSE success_counter
    /\ trial' = trial + 1
    /\ UNCHANGED << kwargs, pc, call, args, before, ret, pre, drawnTotal,
                    counterVars >>

\* the loop is exhausted: return success_counter / num_experiments
ExperimentReturn ==
    /\ pc = "loop"
    /\ trial >= args.num_experiments
    /\ ret' = Divide(success_counter, args.num_experiments)
    /\ pc' = "idle"
    /\ heap' = [heap EXCEPT !.clone = EmptyHat]
    /\ UNCHANGED << kwargs, call, args, before, pre, drawnTotal,
                    success_counter, trial, counterVars >>

Next ==
    \E n \in DrawSizes : Draw(n)

\* a hat and any sequence of draw calls on it
Spec == Init /\ [][Next]_vars

NextExperiment ==
    \/ \E expected \in ExpectedSet, n \in DrawSizes, trials \in TrialCounts :
          ExperimentCall(expected, n, trials)
    \/ ExperimentTrial
    \/ ExperimentReturn

\* a hat and any sequence of experiment calls on it.  Every hat a sequence of
\* draws can leave behind is also a hat the constructor can build
\* (DrawnHatIsConstructible), so starting from the constructed hats loses none.
SpecExperiment == Init /\ [][NextExperiment]_vars

\* ---------------------------------------------------------------- Counter runs
InitCounter ==
    /\ kwargs = << >>
    /\ heap = [hat |-> EmptyHat, clone |-> EmptyHat]
    /\ pc = "idle"
    /\ call = "init"
    /\ args = NoArgs
    /\ before = EmptyHat
    /\ ret = NoValue
    /\ pre = << >>
    /\ drawnTotal = 0
    /\ success_counter = 0
    /\ trial = 0
    /\ spread_in \in KwargsSet
    /\ spread_out = << >>
    /\ count_out = EmptyDict

\* spread_out = Counter.spread(**spread_in)
Spread ==
    /\ call = "init"
    /\ spread_out' = Counter_spread(spread_in)
    /\ call' = "spread"
    /\ UNCHANGED << kwargs, heap, pc, args, before, ret, pre, drawnTotal,
                    success_counter, trial, spread_in, count_out >>

\* count_out = Counter.count(spread_out)
Count ==
    /\ call = "spread"
    /\ count_out' = Counter_count(spread_out)
    /\ call' = "count"
    /\ UNCHANGED << kwargs, heap, pc, args, before, ret, pre, drawnTotal,
                    success_counter, trial, spread_in, spread_out >>

NextCounter == Spread \/ Count

SpecCounter == InitCounter /\ [][NextCounter]_vars

\* ---------------------------------------------------------------- properties
RECURSIVE SumOver(_, _)
SumOver(d, ks) ==
    IF ks = {} THEN 0
    ELSE LET k == CHOOSE x \in ks : TRUE IN d[k] + SumOver(d, ks \ {k})

\* the sum of the values of a dict
Total(d) == SumOver(d, DOMAIN d)

\* the number of occurrences of a label in a list
Occ(s, l) == Cardinality({ i \in DOMAIN s : s[i] = l })

SamePopulation(s, t) ==
    /\ Len(s) = Len(t)
    /\ \A l \in Labels : Occ(s, l) = Occ(t, l)

NonNegative(kw) == \A i \in DOMAIN kw : kw[i][2] >= 0

\* every hat a sequence of draws leaves behind is one the constructor builds
DrawnHatIsConstructible == heap.hat \in { Hat_init(kw) : kw \in KwargsSet }

\* C1: for a hat constructed from non-negative counts, the sum of hat.count
\* plus the number of balls returned by all draws so far is the population the
\* hat was constructed with.
C1_Conservation ==
    NonNegative(kwargs) =>
        Total(heap.hat.count) + drawnTotal = Total(KwargsDict(kwargs))

C1_Witness ==
    /\ NonNegative(kwargs)
    /\ call = "draw"
    /\ drawnTotal >= 2
    /\ drawnTotal > Len(ret.list)
    /\ heap.hat.contents # << >>

\* C2: for a hat constructed from non-negative counts, hat.count[label] is the
\* number of occurrences of label in hat.contents for every key of hat.count,
\* no count is negative, and every ball in hat.contents is a key of hat.count.
C2_Consistent ==
    NonNegative(kwargs) =>
        /\ \A l \in DOMAIN heap.hat.count :
              /\ heap.hat.count[l] = Occ(heap.hat.contents, l)
              /\ heap.hat.count[l] >= 0
        /\ \A i \in DOMAIN heap.hat.contents :
              heap.hat.contents[i] \in DOMAIN heap.hat.count

C2_Witness ==
    /\ NonNegative(kwargs)
    /\ call = "draw"
    /\ args.n >= Len(before.contents)
    /\ Len(before.contents) >= 2
    /\ Cardinality(DOMAIN heap.hat.count) = 2

\* C3: draw(n) with n at least the number of balls in the hat returns all of
\* them (a permutation of the population), leaves hat.contents empty and maps
\* every key of hat.count, those already at zero included, to 0.
C3_Drain ==
    (call = "draw" /\ args.n >= Len(before.contents)) =>
        /\ Len(ret.list) = Len(before.contents)
        /\ SamePopulation(ret.list, before.contents)
        /\ heap.hat.contents = << >>
        /\ DOMAIN heap.hat.count = DOMAIN before.count
        /\ \A l \in DOMAIN heap.hat.count : heap.hat.count[l] = 0

C3_Witness ==
    /\ call = "draw"
    /\ args.n > Len(before.contents)
    /\ Len(ret.list) >= 2
    /\ \E l \in DOMAIN before.count : before.count[l] = 0
    /\ \E l \in DOMAIN before.count : before.count[l] > 0
    /\ heap.hat.contents = << >>

\* C4 (as claimed): draw(n) with n <= 0 returns an empty list and leaves
\* hat.count and hat.contents unchanged, for every hat.
C4_NoOp ==
    (call = "draw" /\ args.n <= 0) =>
        /\ ret.list = << >>
        /\ heap.hat = before

\* C5: experiment never mutates the hat passed to it: during the loop and
\* after the return hat.count and hat.contents are what they were at the call.
C5_HatUntouched ==
    call = "experiment" => heap.hat = before

C5_Witness ==
    /\ call = "experiment"
    /\ pc = "idle"
    /\ trial >= 2
    /\ args.n >= 1
    /\ before.contents # << >>
    /\ heap.hat = before

\* C6 (as claimed): experiment with one trial and a draw size equal to the
\* population returns 1.0 if hat.count (0 for a missing label) is at least
\* the target for every target label, and 0.0 otherwise, for every hat.
C6_FullDraw ==
    (/\ call = "experiment"
     /\ pc = "idle"
     /\ args.num_experiments = 1
     /\ args.n = Len(before.contents)) =>
        /\ ret.err = "none"
        /\ IF \A l \in DOMAIN args.expected_balls :
                 DictGet(before.count, l, 0) >= args.expected_balls[l]
           THEN ret.num = ret.den
           ELSE ret.num = 0

\* C7 (as claimed): constructing a hat from a negative count raises
\* InvalidCount and no hat with a negative entry in hat.count exists.
C7_InvalidCount ==
    (call = "init" /\ ~NonNegative(kwargs)) =>
        /\ ret.err = "InvalidCount"
        /\ \A l \in DOMAIN heap.hat.count : heap.hat.count[l] >= 0

\* C8 (as claimed): experiment with num_experiments <= 0 or a negative
\* num_balls_drawn raises InvalidTrialParameters before any trial runs.
C8_InvalidTrialParameters ==
    (/\ call = "experiment"
     /\ pc = "idle"
     /\ (args.num_experiments <= 0 \/ args.n < 0)) =>
        /\ ret.err = "InvalidTrialParameters"
        /\ trial = 0

\* C9: for non-negative counts m, Counter.count(Counter.spread(**m)) is m
\* without its zero-count entries.
C9_RoundTrip ==
    (call = "count" /\ NonNegative(spread_in)) =>
        LET m == KwargsDict(spread_in)
        IN  count_out = [l \in { k \in DOMAIN m : m[k] > 0 } |-> m[l]]

C9_Witness ==
    /\ call = "count"
    /\ \E i \in DOMAIN spread_in : spread_in[i][2] = 0
    /\ \E i \in DOMAIN spread_in : spread_in[i][2] >= 2
    /\ Cardinality(DOMAIN count_out) = 1

\* C10: draw(n) with 0 <= n < population returns n balls, each with a count
\* above zero in hat.count just before its removal, and leaves n fewer balls.
C10_PerItem ==
    (/\ call = "draw"
     /\ 0 <= args.n
     /\ args.n < Len(before.contents)) =>
        /\ Len(ret.list) = args.n
        /\ Len(pre) = args.n
        /\ \A i \in DOMAIN pre : pre[i] > 0
        /\ \A i \in DOMAIN ret.list : before.count[ret.list[i]] > 0
        /\ Len(heap.hat.contents) = Len(before.contents) - args.n
        /\ Total(heap.hat.count) = Total(before.count) - args.n

C10_Witness ==
    /\ call = "draw"
    /\ args.n = 1
    /\ Len(before.contents) = 2
    /\ \E l \in DOMAIN before.count : before.count[l] = 0
    /\ Len(ret.list) = 1
    /\ Len(heap.hat.contents) = 1

\* C4 restricted to hats constructed from non-negative counts
C4_NoOp_NonNegative == NonNegative(kwargs) => C4_NoOp

\* C6 restricted to hats constructed from non-negative counts
C6_FullDraw_NonNegative == NonNegative(kwargs) => C6_FullDraw

====
